---- MODULE Spec2Model ----
(***************************************************************************)
(* Horizon Maestro, src/index.js: the script loads config.toml, starts the *)
(* dashboard with `npm run start`, waits for it to exit, and then posts a  *)
(* create-container request to the Docker API.                             *)
(*                                                                         *)
(* The Node.js event loop is modelled one callback per action: the         *)
(* synchronous top level of the script, the listeners on the child         *)
(* process, and the continuations of createContainer after each await.     *)
(* The child process, the Docker daemon and the network are the            *)
(* environment and choose their behaviour nondeterministically.            *)
(***************************************************************************)
EXTENDS Integers, Sequences, FiniteSets

\* Bounds of the model.
MaxChunks == 2
MaxHosts == 2

VARIABLES
    config,         \* what config.toml holds (line 8)
    procState,      \* the orchestrator process: loading, loaded, running, exited
    exitCode,       \* exit code of the orchestrator process once exited
    childState,     \* dashboard subprocess: none, running, errored, exited
    spawns,         \* number of calls of spawn
    childCode,      \* code of the delivered 'exit' event, <<>> is null
    errorSeen,      \* an 'error' event was delivered
    stdoutPipe,     \* chunks written by the child to stdout, not yet delivered
    stderrPipe,     \* same for stderr
    stdoutEmitted,  \* every chunk the child wrote to stdout, in order
    stderrEmitted,  \* every chunk the child wrote to stderr, in order
    npmPromise,     \* promise of runNpmStart: none, pending, resolved, rejected
    npmReason,      \* message of the error runNpmStart rejected with
    pc,             \* position of createContainer
    ccPromise,      \* promise of createContainer
    http,           \* promise of axios.post: none, inflight, resolved, rejected
    response,       \* status of the response received, 0 when there is none
    httpReason,     \* message of the error axios.post rejected with
    requests,       \* requests issued to the Docker API, in order
    container,      \* the container on the Docker host: absent, created
    out,            \* console.log, in order
    err             \* console.error, in order

vars == <<config, procState, exitCode, childState, spawns, childCode, errorSeen,
          stdoutPipe, stderrPipe, stdoutEmitted, stderrEmitted, npmPromise,
          npmReason, pc, ccPromise, http, response, httpReason, requests,
          container, out, err>>

childVars == <<childState, spawns, childCode, errorSeen>>
pipeVars == <<stdoutPipe, stderrPipe, stdoutEmitted, stderrEmitted>>
npmVars == <<npmPromise, npmReason>>
httpVars == <<http, response, httpReason, container>>

----
\* Configuration documents.

ValidConfigs ==
    { [file |-> "ok", docker |-> TRUE, baseUrl |-> TRUE, imageName |-> TRUE,
       containerName |-> TRUE, hosts |-> n] : n \in 0..MaxHosts }

BrokenFiles ==
    { [file |-> f, docker |-> FALSE, baseUrl |-> FALSE, imageName |-> FALSE,
       containerName |-> FALSE, hosts |-> 0] : f \in {"unreadable", "unparsable"} }

MissingFields ==
    { [file |-> "ok", docker |-> FALSE, baseUrl |-> FALSE, imageName |-> FALSE,
       containerName |-> FALSE, hosts |-> 1],
      [file |-> "ok", docker |-> TRUE, baseUrl |-> FALSE, imageName |-> TRUE,
       containerName |-> TRUE, hosts |-> 1],
      [file |-> "ok", docker |-> TRUE, baseUrl |-> TRUE, imageName |-> FALSE,
       containerName |-> TRUE, hosts |-> 1],
      [file |-> "ok", docker |-> TRUE, baseUrl |-> TRUE, imageName |-> TRUE,
       containerName |-> FALSE, hosts |-> 1] }

Configs == ValidConfigs \cup BrokenFiles \cup MissingFields

\* toml.parse(fs.readFileSync(...)) throws on an unreadable or unparsable file.
ConfigLoads(cfg) == cfg.file = "ok"

\* A missing key reads as undefined; a template literal prints it "undefined".
BaseUrl(cfg) == IF cfg.baseUrl THEN "http://localhost:2375" ELSE "undefined"
ImageName(cfg) == IF cfg.imageName THEN "horizon-game-server:latest" ELSE "undefined"
ContainerName(cfg) == IF cfg.containerName THEN "horizon-instance-1" ELSE "undefined"

CreateContainerEndpoint(cfg) == <<BaseUrl(cfg), "/containers/create">>

\* Mutant: the image and the name swapped in the request body.
ContainerConfigSwapped(cfg) == [Image |-> ContainerName(cfg), name |-> ImageName(cfg)]

ContainerConfig(cfg) == [Image |-> ImageName(cfg), name |-> ContainerName(cfg)]

PostRequest(cfg) ==
    [method |-> "POST", url |-> CreateContainerEndpoint(cfg), body |-> ContainerConfig(cfg)]

----
\* The dashboard subprocess.

\* Exit codes of the 'exit' event: <<c>> is the code c, <<>> is null (the
\* child was terminated by a signal).
ExitCodes == {<<0>>, <<1>>, <<>>}

CodeToString(code) == IF code = <<>> THEN "null" ELSE IF code = <<0>> THEN "0" ELSE "1"

\* Mutant: the exit code is ignored, every exit resolves.
ExitSettlesAlways(code) == "resolved"

\* Mutant: `if (!code)`, a null code counts as success.
ExitSettlesFalsy(code) == IF code = <<0>> \/ code = <<>> THEN "resolved" ELSE "rejected"

\* The 'exit' listener: resolve on code === 0, reject otherwise.
ExitSettles(code) == IF code = <<0>> THEN "resolved" ELSE "rejected"

\* Mutant: a plain variable in place of the promise, the last call wins.
SettleOverwrites(promise, outcome) == outcome

\* resolve and reject of the promise of runNpmStart: the first call settles
\* it, a call on a settled promise does nothing.
Settle(promise, outcome) == IF promise.state = "pending" THEN outcome ELSE promise

Resolved == [state |-> "resolved", reason |-> <<>>]
Rejected(message) == [state |-> "rejected", reason |-> message]

ExitMessage(code) == <<"NPM start process exited with code", CodeToString(code)>>

\* What the 'exit' listener calls for a code.
ExitOutcome(code) ==
    IF ExitSettles(code) = "resolved" THEN Resolved ELSE Rejected(ExitMessage(code))

SpawnErrorMessage == <<"spawn /bin/sh ENOENT">>

\* Buffers the child writes: "A", the two bytes of U+00E9, and the first of
\* those two bytes alone (a character split across chunks).
Chunks == {<<65>>, <<195, 169>>, <<195>>}

IsContinuation(b) == b >= 128 /\ b < 192

RECURSIVE BufferToString(_)
\* data.toString(): UTF-8 decoding, an incomplete sequence decodes to U+FFFD.
BufferToString(data) ==
    IF data = <<>> THEN <<>>
    ELSE IF Head(data) < 128
         THEN <<"A">> \o BufferToString(Tail(data))
         ELSE IF Head(data) = 195 /\ Len(data) >= 2 /\ IsContinuation(data[2])
              THEN <<"U+00E9">> \o BufferToString(Tail(Tail(data)))
              ELSE <<"U+FFFD">> \o BufferToString(Tail(data))

\* Lines written to the console: data forwarded from the child, or a message
\* of createContainer.
Data(text) == [tag |-> "data", text |-> text]
Msg(text) == [tag |-> "msg", text |-> text]

\* Mutant: both streams forwarded with console.log.
SinkOfAlwaysLog(stream) == "log"

\* The console method each stream of the child is forwarded to.
SinkOf(stream) == IF stream = "stdout" THEN "log" ELSE "error"

----
\* The Docker API and axios.

StatusCodes == {200, 201, 404, 500}

StatusString(status) ==
    CASE status = 200 -> "200" [] status = 201 -> "201"
      [] status = 404 -> "404" [] OTHER -> "500"

StatusText(status) ==
    CASE status = 200 -> "OK" [] status = 201 -> "Created"
      [] status = 404 -> "Not Found" [] OTHER -> "Internal Server Error"

\* axios settles the promise of a response by its default validateStatus.
ValidateStatus(status) == status >= 200 /\ status < 300

\* Mutant: any 2xx status counts as created.
StatusIsSuccessAny2xx(status) == status >= 200 /\ status < 300

\* The check of the response status.
StatusIsSuccess(status) == status = 201

\* A URL axios can send a request to.
ValidUrl(url) == url[1] # "undefined"

----
\* The try block of createContainer covers every await and statement in it.
Sites == {"runNpmStart", "config", "post"}

\* Mutant: the await of runNpmStart placed before the try block.
CaughtAfterNpm(site) == site \in Sites \ {"runNpmStart"}

Caught(site) == site \in Sites

\* Mutant: the catch block calls createContainer again.
AfterCatchRetry == "start"

\* Where createContainer continues after the catch block: the function ends.
AfterCatch == "done"

\* An error thrown at a site of createContainer: the catch block logs it and
\* the function returns; an error outside the try would reject the promise.
Throw(site, message) ==
    /\ pc' = AfterCatch
    /\ IF Caught(site)
       THEN /\ err' = Append(err, Msg(<<"Error:">> \o message))
            /\ ccPromise' = "fulfilled"
       ELSE /\ err' = err
            /\ ccPromise' = "rejected"

----
Init ==
    /\ config \in Configs
    /\ procState = "loading"
    /\ exitCode = 0
    /\ childState = "none"
    /\ spawns = 0
    /\ childCode = <<>>
    /\ errorSeen = FALSE
    /\ stdoutPipe = <<>>
    /\ stderrPipe = <<>>
    /\ stdoutEmitted = <<>>
    /\ stderrEmitted = <<>>
    /\ npmPromise = "none"
    /\ npmReason = <<>>
    /\ pc = "start"
    /\ ccPromise = "none"
    /\ http = "none"
    /\ response = 0
    /\ httpReason = <<>>
    /\ requests = <<>>
    /\ container = "absent"
    /\ out = <<>>
    /\ err = <<>>

\* Line 8: the configuration is read at module load; an exception there is
\* uncaught and ends the process with code 1.
LoadConfig ==
    /\ procState = "loading"
    /\ IF ConfigLoads(config)
       THEN procState' = "loaded" /\ exitCode' = exitCode
       ELSE procState' = "exited" /\ exitCode' = 1
    /\ UNCHANGED <<config, childVars, pipeVars, npmVars, pc, ccPromise,
                   httpVars, requests, out, err>>

\* Line 71: createContainer() runs up to its first await, which calls
\* runNpmStart: the child is spawned and the listeners are installed.
CreateContainer ==
    /\ procState \in {"loaded", "running"}
    /\ pc = "start"
    /\ procState' = "running"
    /\ spawns' = spawns + 1
    /\ pc' = "awaitNpm"
    /\ ccPromise' = "pending"
    /\ npmPromise' = "pending"
    /\ childState' = "running"
    /\ UNCHANGED <<config, exitCode, childCode, errorSeen, pipeVars, npmReason,
                   httpVars, requests, out, err>>

\* The child writes a chunk to one of its output streams.
ChildWrites(stream, chunk) ==
    /\ childState = "running"
    /\ IF stream = "stdout"
       THEN /\ Len(stdoutEmitted) < MaxChunks
            /\ stdoutPipe' = Append(stdoutPipe, chunk)
            /\ stdoutEmitted' = Append(stdoutEmitted, chunk)
            /\ UNCHANGED <<stderrPipe, stderrEmitted>>
       ELSE /\ Len(stderrEmitted) < MaxChunks
            /\ stderrPipe' = Append(stderrPipe, chunk)
            /\ stderrEmitted' = Append(stderrEmitted, chunk)
            /\ UNCHANGED <<stdoutPipe, stdoutEmitted>>
    /\ UNCHANGED <<config, procState, exitCode, childVars, npmVars, pc,
                   ccPromise, httpVars, requests, out, err>>

\* Lines 18-24: the 'data' listeners of child.stdout and child.stderr.
OnData(stream) ==
    /\ procState = "running"
    /\ LET pipe == IF stream = "stdout" THEN stdoutPipe ELSE stderrPipe
       IN /\ pipe # <<>>
          /\ IF SinkOf(stream) = "log"
             THEN /\ out' = Append(out, Data(BufferToString(Head(pipe))))
                  /\ err' = err
             ELSE /\ err' = Append(err, Data(BufferToString(Head(pipe))))
                  /\ out' = out
          /\ IF stream = "stdout"
             THEN stdoutPipe' = Tail(pipe) /\ stderrPipe' = stderrPipe
             ELSE stderrPipe' = Tail(pipe) /\ stdoutPipe' = stdoutPipe
    /\ UNCHANGED <<config, procState, exitCode, childVars, stdoutEmitted,
                   stderrEmitted, npmVars, pc, ccPromise, httpVars, requests>>

\* Lines 26-32: the 'exit' listener. A settled promise ignores resolve and
\* reject. The event may also fire after an 'error' event.
OnExit(code) ==
    /\ procState = "running"
    /\ childState \in {"running", "errored"}
    /\ childState' = "exited"
    /\ childCode' = code
    /\ LET settled == Settle([state |-> npmPromise, reason |-> npmReason],
                              ExitOutcome(code))
       IN npmPromise' = settled.state /\ npmReason' = settled.reason
    /\ UNCHANGED <<config, procState, exitCode, spawns, errorSeen, pipeVars, pc,
                   ccPromise, httpVars, requests, out, err>>

\* Lines 34-36: the 'error' listener; the process could not be spawned.
OnError ==
    /\ procState = "running"
    /\ childState = "running"
    /\ stdoutEmitted = <<>> /\ stderrEmitted = <<>>
    /\ childState' = "errored"
    /\ errorSeen' = TRUE
    /\ LET settled == Settle([state |-> npmPromise, reason |-> npmReason],
                              Rejected(SpawnErrorMessage))
       IN npmPromise' = settled.state /\ npmReason' = settled.reason
    /\ UNCHANGED <<config, procState, exitCode, spawns, childCode, pipeVars, pc,
                   ccPromise, httpVars, requests, out, err>>

\* Lines 44-57: createContainer resumes once runNpmStart has settled.
ResumeAfterNpm ==
    /\ procState = "running"
    /\ pc = "awaitNpm"
    /\ npmPromise \in {"resolved", "rejected"}
    /\ IF npmPromise = "rejected"
       THEN /\ Throw("runNpmStart", npmReason)
            /\ UNCHANGED <<requests, http>>
       ELSE IF ~config.docker
            THEN /\ Throw("config", <<"Cannot read properties of undefined">>)
                 /\ UNCHANGED <<requests, http>>
            ELSE /\ requests' = Append(requests, PostRequest(config))
                 /\ http' = "inflight"
                 /\ pc' = "awaitPost"
                 /\ UNCHANGED <<ccPromise, err>>
    /\ UNCHANGED <<config, procState, exitCode, childVars, pipeVars, npmVars,
                   response, httpReason, container, out>>

\* The Docker daemon answers the request in flight.
DockerResponds(status) ==
    /\ http = "inflight"
    /\ ValidUrl(requests[Len(requests)].url)
    /\ response' = status
    /\ container' = IF status = 201 THEN "created" ELSE container
    /\ IF ValidateStatus(status)
       THEN http' = "resolved" /\ httpReason' = httpReason
       ELSE /\ http' = "rejected"
            /\ httpReason' = <<"Request failed with status code", StatusString(status)>>
    /\ UNCHANGED <<config, procState, exitCode, childVars, pipeVars, npmVars,
                   pc, ccPromise, requests, out, err>>

\* The request fails without a response: invalid URL, connection refused.
RequestFails ==
    /\ http = "inflight"
    /\ http' = "rejected"
    /\ httpReason' = IF ValidUrl(requests[Len(requests)].url)
                     THEN <<"connect ECONNREFUSED">> ELSE <<"Invalid URL">>
    /\ UNCHANGED <<config, procState, exitCode, childVars, pipeVars, npmVars,
                   pc, ccPromise, response, container, requests, out, err>>

\* Lines 57-67: createContainer resumes once axios.post has settled.
ResumeAfterPost ==
    /\ procState = "running"
    /\ pc = "awaitPost"
    /\ http \in {"resolved", "rejected"}
    /\ IF http = "rejected"
       THEN Throw("post", httpReason) /\ out' = out
       ELSE /\ pc' = "done"
            /\ ccPromise' = "fulfilled"
            /\ IF StatusIsSuccess(response)
               THEN /\ out' = Append(out, Msg(<<"Container created successfully.">>))
                    /\ err' = err
               ELSE /\ err' = Append(err, Msg(<<"Failed to create container:",
                                                 StatusText(response)>>))
                    /\ out' = out
    /\ UNCHANGED <<config, procState, exitCode, childVars, pipeVars, npmVars,
                   httpVars, requests>>

\* The process ends when nothing is pending: createContainer has returned,
\* the child is gone and its pipes are drained. Nothing sets process.exitCode;
\* an unhandled rejection ends the process with code 1.
ProcessExit ==
    /\ procState = "running"
    /\ pc = "done"
    /\ childState \in {"exited", "errored"}
    /\ stdoutPipe = <<>> /\ stderrPipe = <<>>
    /\ procState' = "exited"
    /\ exitCode' = IF ccPromise = "rejected" THEN 1 ELSE 0
    /\ UNCHANGED <<config, childVars, pipeVars, npmVars, pc, ccPromise,
                   httpVars, requests, out, err>>

Next ==
    \/ LoadConfig
    \/ CreateContainer
    \/ \E stream \in {"stdout", "stderr"}, chunk \in Chunks : ChildWrites(stream, chunk)
    \/ \E stream \in {"stdout", "stderr"} : OnData(stream)
    \/ \E code \in ExitCodes : OnExit(code)
    \/ OnError
    \/ ResumeAfterNpm
    \/ \E status \in StatusCodes : DockerResponds(status)
    \/ RequestFails
    \/ ResumeAfterPost
    \/ ProcessExit

Spec == Init /\ [][Next]_vars

\* The event loop runs every callback that is ready, and a request that was
\* sent is answered or fails. Nothing makes the dashboard exit: `npm run
\* start` runs until it is stopped.
FairSpec ==
    /\ Spec
    /\ WF_vars(LoadConfig)
    /\ WF_vars(CreateContainer)
    /\ WF_vars(\E stream \in {"stdout", "stderr"} : OnData(stream))
    /\ WF_vars(ResumeAfterNpm)
    /\ WF_vars((\E status \in StatusCodes : DockerResponds(status)) \/ RequestFails)
    /\ WF_vars(ResumeAfterPost)
    /\ WF_vars(ProcessExit)

----
\* What a run has reported.

\* Position i of a console holds a message of createContainer.
IsMsg(console, i) == console[i].tag = "msg"

SuccessReported ==
    \E i \in 1..Len(out) : out[i] = Msg(<<"Container created successfully.">>)

FailureReported == \E i \in 1..Len(err) : IsMsg(err, i)

OutcomeReported == SuccessReported \/ FailureReported

NumOutcomes ==
    Cardinality({i \in 1..Len(out) : IsMsg(out, i)})
      + Cardinality({i \in 1..Len(err) : IsMsg(err, i)})

ErrorLogged(message) ==
    \E i \in 1..Len(err) : err[i] = Msg(<<"Error:">> \o message)

\* The dashboard exited by itself with the given code, no 'error' before.
DashboardExited == childState = "exited" /\ ~errorSeen

\* Texts of the forwarded data lines of a console, in order.
DataTexts(console) ==
    LET lines == SelectSeq(console, LAMBDA e : e.tag = "data")
    IN [i \in 1..Len(lines) |-> lines[i].text]

Decoded(chunks) == [i \in 1..Len(chunks) |-> BufferToString(chunks[i])]

\* A configuration error in the sense of the specification.
ConfigError(cfg) ==
    \/ ~ConfigLoads(cfg)
    \/ ~cfg.docker \/ ~cfg.baseUrl \/ ~cfg.imageName \/ ~cfg.containerName

----
C2_SuccessIff201 ==
    /\ SuccessReported <=> (pc = "done" /\ http = "resolved" /\ response = 201)
    /\ (pc = "done" /\ requests # <<>> /\ ~(http = "resolved" /\ response = 201))
          => FailureReported
    /\ ~(SuccessReported /\ FailureReported)

C2_Witness ==
    /\ pc = "done" /\ http = "resolved" /\ response = 200
    /\ FailureReported /\ ~SuccessReported

\* C3 (as stated): the process exit code is 0 only if the deployment
\* succeeded; a failed dashboard start, request or status check ends the
\* process with a non-zero code.
C3_ExitCodeZeroOnlyOnSuccess ==
    (procState = "exited" /\ exitCode = 0) => SuccessReported

\* C4 (as stated): with a configuration error the dashboard is never spawned
\* and no create-container request is issued.
C4_ConfigErrorAbortsBeforeSpawn ==
    ConfigError(config) => (childState = "none" /\ requests = <<>>)

\* C5 (as stated): every run that loads its configuration eventually reports
\* a deployment outcome, also when the dashboard never exits.
C5_OutcomeEventuallyReported ==
    (procState = "loaded" /\ config \in ValidConfigs) ~> OutcomeReported

\* C6 (as stated): with N configured hosts the run issues N create-container
\* requests and reports N outcomes, not one.
C6_OneOutcomePerHost ==
    (procState = "exited" /\ config \in ValidConfigs /\ config.hosts > 1
        /\ DashboardExited /\ childCode = <<0>>)
    => (Len(requests) = config.hosts /\ NumOutcomes = config.hosts)

C8_OutputForwardedInOrder ==
    /\ DataTexts(out) \o Decoded(stdoutPipe) = Decoded(stdoutEmitted)
    /\ DataTexts(err) \o Decoded(stderrPipe) = Decoded(stderrEmitted)
    /\ (procState = "exited" /\ ConfigLoads(config))
          => (stdoutPipe = <<>> /\ stderrPipe = <<>>)

\* Both streams fully forwarded, a stderr chunk after createContainer logged
\* its error, hence after runNpmStart settled.
C8_Witness ==
    /\ Len(stdoutEmitted) = MaxChunks /\ stdoutPipe = <<>>
    /\ Len(stderrEmitted) >= 1 /\ stderrPipe = <<>>
    /\ \E i, j \in 1..Len(err) : i < j /\ IsMsg(err, i) /\ err[j].tag = "data"

\* C9: every error raised after the configuration was loaded (spawn error,
\* non-zero exit, failed request) is caught in createContainer and logged;
\* the promise of createContainer never rejects.
C9_ErrorsCaughtAndLogged ==
    /\ ccPromise # "rejected"
    /\ (pc = "done" /\ npmPromise = "rejected")
          => (ccPromise = "fulfilled" /\ ErrorLogged(npmReason))
    /\ (pc = "done" /\ http = "rejected")
          => (ccPromise = "fulfilled" /\ ErrorLogged(httpReason))

C9_Witness ==
    /\ pc = "done" /\ npmPromise = "rejected" /\ errorSeen
    /\ ccPromise = "fulfilled" /\ ErrorLogged(SpawnErrorMessage)

\* C10: a create-container request is issued only after the dashboard was
\* spawned and exited with code exactly 0; after an 'error' event, a
\* non-zero code or a null code no request is ever issued.
C10_RequestOnlyAfterExitZero ==
    /\ requests # <<>> => (DashboardExited /\ childCode = <<0>>)
    /\ (errorSeen \/ (childState = "exited" /\ childCode # <<0>>))
          => (requests = <<>> /\ http = "none")

C10_Witness ==
    /\ requests # <<>> /\ childState = "exited" /\ childCode = <<0>>
    /\ npmPromise = "resolved"

NumFailures == Cardinality({i \in 1..Len(err) : IsMsg(err, i)})

\* C11: a failed run is terminal and is not retried: the dashboard is
\* spawned at most once and the create-container request is issued at most
\* once, and once a failure has been reported there is no further spawn and
\* no further request.
C11_NoRetry ==
    /\ [](spawns <= 1 /\ Len(requests) <= 1)
    /\ [][FailureReported => (spawns' = spawns /\ requests' = requests)]_vars

\* A run whose request failed ended without a second spawn or request.
C11_Witness ==
    /\ procState = "exited" /\ FailureReported
    /\ http = "rejected" /\ spawns = 1 /\ Len(requests) = 1

\* A settled promise of runNpmStart keeps its state and its reason.
SettledStays ==
    (npmPromise \in {"resolved", "rejected"})
    => (npmPromise' = npmPromise /\ npmReason' = npmReason)

====
